---- MODULE Spec2Model ----
(***************************************************************************)
(* Model of skimage/segmentation/trainable_segmentation.py.                *)
(*                                                                         *)
(* Three state machines share this module:                                 *)
(*   SpecFeatures  - one call of multiscale_basic_features: the scale      *)
(*                   sequence, the per-(channel, scale) tasks run by the   *)
(*                   dask scheduler or by a ThreadPoolExecutor, and the    *)
(*                   stacking of the results;                              *)
(*   SpecSegmenter - a TrainableSegmenter object driven by any sequence of *)
(*                   compute_features / fit / predict calls;               *)
(*   SpecFit       - one call of fit_segmenter on any labels, features and *)
(*                   classifier predictions.                               *)
(*                                                                         *)
(* The classifier is known through its contract only: fit gives it a       *)
(* fitted state, predict raises NotFittedError without one and otherwise   *)
(* returns one class per row, whichever classes those are.                 *)
(*                                                                         *)
(* Real numbers.  A positive sigma is 2^(e/Den) for an integer e, so that  *)
(* np.log2 of it is the rational e/Den; sigma = 0 and sigma < 0 are kept   *)
(* apart because np.log2 maps them to -inf and nan.  A computed scale is   *)
(* the pair <<n, d>> standing for 2^(n/d).                                 *)
(***************************************************************************)
EXTENDS Integers, Sequences, FiniteSets, TLC

\* ------------------------------------------------------------------ bounds
Den == 2           \* sigma exponents are multiples of 1/Den
MaxExp == 4        \* positive sigmas range over 2^(0/Den) .. 2^(MaxExp/Den)
MaxNdim == 3       \* image.ndim ranges over 1..MaxNdim
MaxSize == 2       \* spatial axes have MaxSize entries, the last axis 1..MaxSize
MaxWorkers == 2    \* num_workers ranges over 1..MaxWorkers
MaxImages == 3     \* the segmenter is given images 1..MaxImages
MaxPixels == 2     \* image 1 has one pixel, the others MaxPixels pixels
MaxLabel == 2      \* class identifiers are 1..MaxLabel; label 0 is "unlabeled"

VARIABLES
    \* ---- one call of multiscale_basic_features
    image,          \* image.shape, a sequence of axis sizes
    multichannel, intensity, edges, texture,
    sigma_min, sigma_max,
    num_workers,
    has_dask,       \* module global set at import time
    pc,             \* "call", "singlechannel", "map", "stack", "returned", "raised"
    dim,            \* channel whose tasks are being computed (0-based)
    sigmas,         \* the scales of the current channel
    futures,        \* task index -> [state, result]
    out_sigmas,     \* bundles gathered so far for the current channel
    features,       \* list(itertools.chain.from_iterable(all_results)) so far
    result,         \* what the call gave back: [kind, shape, error]
    overtaken,      \* history: some task finished before an earlier-indexed one
    failed,         \* history: some task has raised
    \* ---- a TrainableSegmenter object
    features_func,  \* self.features_func
    self_features,  \* self.features
    clf,            \* self.clf, known only through fit and predict
    segmented_image,\* self.segmented_image; <<>> while the attribute is unset
    last,           \* the last method call: arguments, outcome, classifier calls
    everFit,        \* history: clf.fit has been called and has returned
    \* ---- one call of fit_segmenter
    fs_args,        \* [labels, features, predicted]; predicted is what clf.predict gives
    fs_ret          \* what the call gave back

pipeVars == <<image, multichannel, intensity, edges, texture, sigma_min,
              sigma_max, num_workers, has_dask, pc, dim, sigmas, futures,
              out_sigmas, features, result, overtaken, failed>>

segVars == <<features_func, self_features, clf, segmented_image, last, everFit>>

fitVars == <<fs_args, fs_ret>>

vars == <<pipeVars, segVars, fitVars>>

\* --------------------------------------------------------------- sequences
RECURSIVE Flatten(_)
Flatten(ss) == IF ss = <<>> THEN <<>> ELSE Head(ss) \o Flatten(Tail(ss))

Reverse(s) == [i \in 1..Len(s) |-> s[Len(s) + 1 - i]]

\* int(x) of Python for the rational n/d, d > 0: truncation toward zero
IntTrunc(n, d) == IF n >= 0 THEN n \div d ELSE -((-n) \div d)

\* ------------------------------------------------------------------ sigmas
Pos(e) == [sign |-> 1, e |-> e]
Zero == [sign |-> 0, e |-> 0]
Neg == [sign |-> -1, e |-> 0]
SigmaValues == {Pos(e) : e \in 0..MaxExp} \cup {Zero, Neg}

\* np.log2: e/Den for 2^(e/Den), -inf for 0, nan for a negative number
Log2(s) ==
    IF s.sign = 1 THEN [k |-> "fin", n |-> s.e]
    ELSE IF s.sign = 0 THEN [k |-> "-inf", n |-> 0]
    ELSE [k |-> "nan", n |-> 0]

\* int(np.log2(sigma_max) - np.log2(sigma_min) + 1) in IEEE arithmetic:
\* int(nan) raises ValueError, int(+-inf) raises OverflowError
NumScales(smin, smax) ==
    LET lo == Log2(smin)
        hi == Log2(smax)
    IN  IF lo.k = "nan" \/ hi.k = "nan" \/ (lo.k = "-inf" /\ hi.k = "-inf")
        THEN [err |-> "ValueError", num |-> 0]
        ELSE IF lo.k = "-inf" \/ hi.k = "-inf"
        THEN [err |-> "OverflowError", num |-> 0]
        ELSE [err |-> "none", num |-> IntTrunc(hi.n - lo.n + Den, Den)]

\* as Logspace, with endpoint=False: the step is (stop - start) / num
LogspaceNoEndpoint(start, stop, num) ==
    [i \in 1..num |-> <<start * num + (i - 1) * (stop - start), Den * num>>]

\* np.logspace(start/Den, stop/Den, num, base=2, endpoint=True): the exponents
\* np.linspace gives, start + i * (stop - start) / (num - 1); num = 1 gives
\* [start] and num = 0 the empty array
Logspace(start, stop, num) ==
    IF num = 1 THEN << <<start, Den>> >>
    ELSE [i \in 1..num |->
            <<start * (num - 1) + (i - 1) * (stop - start), Den * (num - 1)>>]

\* lines 90-96: the scale sequence, or the error the expression raises
Sigmas(smin, smax) ==
    LET c == NumScales(smin, smax)
    IN  IF c.err # "none" THEN [err |-> c.err, seq |-> <<>>]
        ELSE IF c.num < 0 THEN [err |-> "ValueError", seq |-> <<>>]
        ELSE [err |-> "none",
              seq |-> Reverse(Logspace(Log2(smin).n, Log2(smax).n, c.num))]

\* 2^(a[1]/a[2]) compared with 2^(b[1]/b[2])
ScaleLess(a, b) == a[1] * b[2] < b[1] * a[2]
ScaleEq(a, b) == a[1] * b[2] = b[1] * a[2]
\* a = 2 * b
ScaleDouble(a, b) == a[1] * b[2] = (b[1] + b[2]) * a[2]
ScaleOf(s) == <<s.e, Den>>

\* ------------------------------------------------- single-scale features
\* _texture_filter: one eigenvalue per axis of the channel image.  For a
\* 1-D array np.gradient returns the array itself, not a list, so that
\* np.gradient(...)[ax0] is a scalar and the second np.gradient raises.
TextureFails(ndim) == ndim = 1

\* _singlescale_basic_features_singlechannel: the bundle of one (channel,
\* scale) task for a channel image of ndim axes
Bundle(ch, s, ndim, int, edg, tex) ==
    (IF int THEN << <<ch, s, "intensity", 0>> >> ELSE <<>>)
    \o (IF edg THEN << <<ch, s, "edges", 0>> >> ELSE <<>>)
    \o (IF tex THEN [j \in 1..ndim |-> <<ch, s, "texture", j>>] ELSE <<>>)

\* ------------------------------------------------ multiscale_basic_features
Ndim == Len(image)

\* line 167
SplitChannels(ndim, mc) == ndim >= 3 /\ mc

\* range(image.shape[-1]) of line 178, or the single call of line 182
NumChannels == IF SplitChannels(Ndim, multichannel) THEN image[Ndim] ELSE 1

\* shape of image[..., dim], or of the whole image
ChannelShape ==
    IF SplitChannels(Ndim, multichannel) THEN SubSeq(image, 1, Ndim - 1)
    ELSE image

Tasks == DOMAIN futures

Pending == [state |-> "PENDING", result |-> <<>>]

Running(t) == futures[t].state = "RUNNING"

\* as SetResult, with the results lined up in the order the tasks finish
SetResultByArrival(fs, t, r) ==
    LET k == Cardinality({u \in DOMAIN fs : fs[u].state = "FINISHED"}) + 1
        done == [fs EXCEPT ![t].state = "FINISHED"]
    IN  [done EXCEPT ![k].result = r]

\* a finished task's result is kept with the task that produced it
SetResult(fs, t, r) == [fs EXCEPT ![t] = [state |-> "FINISHED", result |-> r]]

ImageShapes ==
    {[i \in 1..n |-> IF i < n THEN MaxSize ELSE c] :
        n \in 1..MaxNdim, c \in 1..MaxSize}

PipeIdle ==
    /\ dim = 0
    /\ sigmas = <<>>
    /\ futures = <<>>
    /\ out_sigmas = <<>>
    /\ features = <<>>
    /\ result = [kind |-> "none", shape |-> <<>>, error |-> "none"]
    /\ overtaken = FALSE
    /\ failed = FALSE

inputs == <<image, multichannel, intensity, edges, texture, sigma_min,
            sigma_max, num_workers, has_dask>>

\* lines 167-190: the caller enters the loop over the channels
Call ==
    /\ pc = "call"
    /\ pc' = "singlechannel"
    /\ UNCHANGED <<inputs, dim, sigmas, futures, out_sigmas, features, result,
                   overtaken, failed>>

\* lines 89-103, 108-110: the scales are computed and one task per scale is
\* handed to the scheduler; an error of the sigma expression leaves the call
Submit ==
    /\ pc = "singlechannel"
    /\ LET sg == Sigmas(sigma_min, sigma_max)
       IN  IF sg.err # "none"
           THEN /\ pc' = "raised"
                /\ result' = [kind |-> "raised", shape |-> <<>>, error |-> sg.err]
                /\ UNCHANGED <<sigmas, futures, out_sigmas>>
           ELSE /\ pc' = "map"
                /\ sigmas' = sg.seq
                /\ futures' = [t \in 1..Len(sg.seq) |-> Pending]
                /\ out_sigmas' = <<>>
                /\ UNCHANGED result
    /\ UNCHANGED <<inputs, dim, features, overtaken, failed>>

\* a worker takes a task: the thread pool hands out its queue in submission
\* order, the dask scheduler in any order; at most num_workers run at once
Start(t) ==
    /\ pc = "map"
    /\ futures[t].state = "PENDING"
    /\ Cardinality({u \in Tasks : Running(u)}) < num_workers
    /\ has_dask \/ \A u \in Tasks : u < t => futures[u].state # "PENDING"
    /\ futures' = [futures EXCEPT ![t].state = "RUNNING"]
    /\ UNCHANGED <<inputs, pc, dim, sigmas, out_sigmas, features, result, overtaken,
                   failed>>

\* _singlescale_basic_features_singlechannel returns its bundle
Finish(t) ==
    /\ pc = "map"
    /\ Running(t)
    /\ ~(texture /\ TextureFails(Len(ChannelShape)))
    /\ futures' = SetResult(futures, t,
                     Bundle(dim, sigmas[t], Len(ChannelShape),
                            intensity, edges, texture))
    /\ overtaken' = (overtaken \/ \E u \in Tasks :
                        u < t /\ futures[u].state \in {"PENDING", "RUNNING"})
    /\ UNCHANGED <<inputs, pc, dim, sigmas, out_sigmas, features, result, failed>>

\* _singlescale_basic_features_singlechannel raises
Fail(t) ==
    /\ pc = "map"
    /\ Running(t)
    /\ futures' = [futures EXCEPT ![t] = [state |-> "FAILED", result |-> <<>>]]
    /\ failed' = TRUE
    /\ UNCHANGED <<inputs, pc, dim, sigmas, out_sigmas, features, result, overtaken>>

Raise(e) ==
    /\ pc' = "raised"
    /\ result' = [kind |-> "raised", shape |-> <<>>, error |-> e]

\* as PoolNext, with a failed task's result left out instead of re-raised
PoolNextSkipFailed ==
    /\ pc = "map"
    /\ ~has_dask
    /\ Len(out_sigmas) < Len(sigmas)
    /\ futures[Len(out_sigmas) + 1].state \in {"FINISHED", "FAILED"}
    /\ out_sigmas' = Append(out_sigmas, futures[Len(out_sigmas) + 1].result)
    /\ UNCHANGED <<inputs, pc, result, dim, sigmas, futures, features, overtaken,
                   failed>>

\* lines 109-116: list(ex.map(...)) takes the results in submission order,
\* waiting for each, and re-raises the exception of a failed task
PoolNext ==
    /\ pc = "map"
    /\ ~has_dask
    /\ Len(out_sigmas) < Len(sigmas)
    /\ LET f == futures[Len(out_sigmas) + 1]
       IN  \/ /\ f.state = "FINISHED"
              /\ out_sigmas' = Append(out_sigmas, f.result)
              /\ UNCHANGED <<pc, result>>
           \/ /\ f.state = "FAILED"
              /\ Raise("TaskFailure")
              /\ UNCHANGED out_sigmas
    /\ UNCHANGED <<inputs, dim, sigmas, futures, features, overtaken, failed>>

\* lines 104-106: dask.compute returns the results in argument order once all
\* tasks are done, and raises as soon as one has failed
DaskCompute ==
    /\ pc = "map"
    /\ has_dask
    /\ Len(out_sigmas) < Len(sigmas)
    /\ \/ /\ \A t \in Tasks : futures[t].state = "FINISHED"
          /\ out_sigmas' = [t \in 1..Len(sigmas) |-> futures[t].result]
          /\ UNCHANGED <<pc, result>>
       \/ /\ \E t \in Tasks : futures[t].state = "FAILED"
          /\ Raise("TaskFailure")
          /\ UNCHANGED out_sigmas
    /\ UNCHANGED <<inputs, dim, sigmas, futures, features, overtaken, failed>>

\* lines 117-118, 180: the channel's bundles are chained onto the feature
\* list, then the generator yields the next channel
ChannelDone ==
    /\ pc = "map"
    /\ Len(out_sigmas) = Len(sigmas)
    /\ features' = features \o Flatten(out_sigmas)
    /\ dim' = dim + 1
    /\ pc' = IF dim + 1 < NumChannels THEN "singlechannel" ELSE "stack"
    /\ UNCHANGED <<inputs, sigmas, futures, out_sigmas, result, overtaken, failed>>

\* np.array of a list of F arrays of shape S has shape (F, *S); of the empty
\* list, shape (0,)
StackShape(fs, shape) == IF fs = <<>> THEN <<0>> ELSE <<Len(fs)>> \o shape

\* line 191
Return ==
    /\ pc = "stack"
    /\ pc' = "returned"
    /\ result' = [kind |-> "returned",
                  shape |-> StackShape(features, ChannelShape),
                  error |-> "none"]
    /\ UNCHANGED <<inputs, dim, sigmas, futures, out_sigmas, features, overtaken,
                   failed>>

\* ------------------------------------------------------ TrainableSegmenter
\* An image is known by its identity and its spatial shape S, here the number
\* of its pixels.  A FeatureStack of shape (F, *S) is known by the image it
\* was computed from; its column for pixel p is the pair <<image, p>>.
Images == 1..MaxImages
None == 0
ImageSize(i) == IF i = 1 THEN 1 ELSE MaxPixels

NoFeatures == [of |-> None, size |-> 0]

\* as FeaturesOf, for a feature function that accepts None
FeaturesOfLenient(img) ==
    [err |-> "none",
     val |-> [of |-> img, size |-> IF img = None THEN MaxPixels ELSE ImageSize(img)]]

\* self.features_func(image): multiscale_basic_features reads image.ndim
\* (line 167), which None does not have
FeaturesOf(img) ==
    IF img = None THEN [err |-> "AttributeError", val |-> NoFeatures]
    ELSE [err |-> "none", val |-> [of |-> img, size |-> ImageSize(img)]]

LabelArrays ==
    [1..1 -> 0..MaxLabel] \cup [1..MaxPixels -> 0..MaxLabel]

Indices(n) == [i \in 1..n |-> i]

\* the positions a boolean mask selects, in array order
Where(mask) == SelectSeq(Indices(Len(mask)), LAMBDA p : mask[p])

\* the masks labels > 0 and labels == 0
Labeled(labels) == [p \in 1..Len(labels) |-> labels[p] > 0]
Unlabeled(labels) == [p \in 1..Len(labels) |-> labels[p] = 0]

\* features[:, mask].T : one row per selected pixel
Rows(feats, pos) == [k \in 1..Len(pos) |-> <<feats.of, pos[k]>>]

\* lines 311-312: output = np.copy(labels); output[labels == 0] = predicted
Scatter(labels, pos, vals) ==
    [p \in 1..Len(labels) |->
        IF \E k \in 1..Len(pos) : pos[k] = p
        THEN vals[CHOOSE k \in 1..Len(pos) : pos[k] = p]
        ELSE labels[p]]

\* as LabelsAfter, with output = labels in place of np.copy(labels)
LabelsAliased(labels, output) == output

\* np.copy(labels) leaves the caller's array as it was
LabelsAfter(labels, output) == labels

\* as NotFitted, for a predict that never raises
NeverNotFitted(c) == FALSE

\* clf.predict raises NotFittedError on a classifier that has no fitted state
NotFitted(c) == ~c.fitted

\* lines 306-313, for the array "predicted" that clf.predict returns; the
\* mask labels > 0 of line 306 must have the shape of the features' spatial
\* axes, or the indexing raises IndexError before clf.fit is called
fit_segmenter(labels, feats, predicted) ==
    IF Len(labels) # feats.size
    THEN [err |-> "IndexError", X |-> <<>>, y |-> <<>>, pred_X |-> <<>>,
          called |-> FALSE, output |-> <<>>, labels_after |-> labels]
    ELSE LET train == Where(Labeled(labels))
             rest == Where(Unlabeled(labels))
             out == Scatter(labels, rest, predicted)
         IN  [err |-> "none",
              X |-> Rows(feats, train),
              y |-> [k \in 1..Len(train) |-> labels[train[k]]],
              pred_X |-> Rows(feats, rest),
              called |-> TRUE,
              output |-> out,
              labels_after |-> LabelsAfter(labels, out)]

\* lines 343-353, for the array "predicted" that clf.predict returns
predict_segmenter(feats, c, predicted) ==
    IF NotFitted(c)
    THEN [err |-> "NotFittedError", pred_X |-> Rows(feats, Indices(feats.size)),
          output |-> <<>>]
    ELSE [err |-> "none", pred_X |-> Rows(feats, Indices(feats.size)),
          output |-> predicted]

\* the record of a method call: labels and ret are kept by their shapes
NoCall ==
    [op |-> "new", image |-> None, labels_shape |-> 0, outcome |-> "ok",
     cached |-> NoFeatures, used |-> NoFeatures, called |-> FALSE,
     ret_shape |-> 0]

SegIdle ==
    /\ features_func = "None"
    /\ self_features = NoFeatures
    /\ clf = [fitted |-> FALSE, prefitted |-> FALSE]
    /\ segmented_image = <<>>
    /\ last = NoCall
    /\ everFit = FALSE

FitUnused ==
    /\ fs_args = [labels |-> <<>>, features |-> NoFeatures, predicted |-> <<>>]
    /\ fs_ret = [done |-> TRUE]

PipeUnused ==
    /\ image = <<1>>
    /\ multichannel = FALSE
    /\ intensity = FALSE
    /\ edges = FALSE
    /\ texture = FALSE
    /\ sigma_min = Pos(0)
    /\ sigma_max = Pos(0)
    /\ num_workers = 1
    /\ has_dask = FALSE
    /\ pc = "idle"
    /\ PipeIdle

\* lines 217-231; the classifier passed in may have been fitted before
InitSegmenter ==
    /\ features_func = "None"
    /\ self_features = NoFeatures
    /\ \E b \in BOOLEAN : clf = [fitted |-> b, prefitted |-> b]
    /\ segmented_image = <<>>
    /\ last = NoCall
    /\ everFit = FALSE
    /\ PipeUnused
    /\ FitUnused

DefaultFunc == "multiscale_basic_features"

\* as CachedAfterPredict, for a predict that stores what it computed
CachedByPredict(cached, computed) == computed

\* what predict leaves in self.features: it keeps its features in a local
CachedAfterPredict(cached, computed) == cached

\* what fit trains on: the cache when there is one (line 252)
FeaturesForFit(cached, computed) == IF cached = NoFeatures THEN computed ELSE cached

\* lines 233-236
compute_features(img) ==
    /\ features_func' = DefaultFunc
    /\ self_features' = FeaturesOf(img).val
    /\ last' = [NoCall EXCEPT !.op = "compute_features", !.image = img,
                              !.cached = self_features,
                              !.used = FeaturesOf(img).val]
    /\ UNCHANGED <<clf, segmented_image, everFit>>

\* lines 238-255
fit(labels, img) ==
    LET need == self_features = NoFeatures
        got == FeaturesOf(img)
    IN  IF need /\ got.err # "none"
        THEN \* compute_features(image) raises
             /\ features_func' = DefaultFunc
             /\ last' = [NoCall EXCEPT !.op = "fit", !.image = img,
                                       !.labels_shape = Len(labels),
                                       !.outcome = got.err,
                                       !.cached = self_features]
             /\ UNCHANGED <<self_features, clf, segmented_image, everFit>>
        ELSE LET feats == FeaturesForFit(self_features, got.val)
                 nzero == Len(Where(Unlabeled(labels)))
             IN  \E predicted \in [1..nzero -> 1..MaxLabel] :
                    LET r == fit_segmenter(labels, feats, predicted)
                    IN  /\ features_func' = IF need THEN DefaultFunc ELSE features_func
                        /\ self_features' = feats
                        /\ clf' = IF r.called THEN [clf EXCEPT !.fitted = TRUE] ELSE clf
                        /\ everFit' = (everFit \/ r.called)
                        /\ segmented_image' =
                              IF r.err = "none" THEN r.output ELSE segmented_image
                        /\ last' = [op |-> "fit", image |-> img,
                                    labels_shape |-> Len(labels),
                                    outcome |-> IF r.err = "none" THEN "ok" ELSE r.err,
                                    cached |-> self_features,
                                    used |-> feats, called |-> r.called,
                                    ret_shape |-> 0]

\* lines 257-274
predict(img) ==
    LET computed == FeaturesOf(img).val
    IN  \E predicted \in [1..computed.size -> 1..MaxLabel] :
           LET r == predict_segmenter(computed, clf, predicted)
           IN  /\ features_func' = DefaultFunc
               /\ self_features' = CachedAfterPredict(self_features, computed)
               /\ last' = [NoCall EXCEPT !.op = "predict", !.image = img,
                              !.outcome = IF r.err = "none" THEN "ok" ELSE r.err,
                              !.cached = self_features,
                              !.used = [of |-> r.pred_X[1][1], size |-> Len(r.pred_X)],
                              !.ret_shape = Len(r.output)]
               /\ UNCHANGED <<clf, segmented_image, everFit>>

\* The segmenter hands labels to fit_segmenter unread, and SpecFit runs
\* fit_segmenter on every label array; here the label arrays are those of
\* either shape whose labeled pixels carry one class and whose first pixel
\* may be unlabeled.
SegLabelArrays ==
    {l \in LabelArrays :
        /\ \A p \in 2..Len(l) : l[p] > 0
        /\ \A p, q \in 1..Len(l) : (l[p] > 0 /\ l[q] > 0) => l[p] = l[q]}

NextSegmenter ==
    \/ \E img \in Images : compute_features(img) /\ UNCHANGED <<pipeVars, fitVars>>
    \/ \E labels \in SegLabelArrays, img \in Images \cup {None} :
          fit(labels, img) /\ UNCHANGED <<pipeVars, fitVars>>
    \/ \E img \in Images : predict(img) /\ UNCHANGED <<pipeVars, fitVars>>

SpecSegmenter == InitSegmenter /\ [][NextSegmenter]_vars

\* ------------------------------------------------------- fit_segmenter alone
FitArgs ==
    {[labels |-> l, features |-> FeaturesOf(i).val, predicted |-> y] :
        l \in LabelArrays, i \in Images,
        y \in UNION {[1..n -> 1..MaxLabel] : n \in 0..MaxPixels}}

InitFit ==
    /\ fs_args \in {a \in FitArgs :
                      Len(a.predicted) = Len(Where(Unlabeled(a.labels)))}
    /\ fs_ret = [done |-> FALSE]
    /\ PipeUnused
    /\ SegIdle

\* lines 277-313
CallFitSegmenter ==
    /\ ~fs_ret.done
    /\ fs_ret' = [done |-> TRUE,
                  val |-> fit_segmenter(fs_args.labels, fs_args.features,
                                        fs_args.predicted)]
    /\ UNCHANGED <<fs_args, pipeVars, segVars>>

NextFit == CallFitSegmenter

SpecFit == InitFit /\ [][NextFit]_vars

InitFeatures ==
    /\ image \in ImageShapes
    /\ multichannel \in BOOLEAN
    /\ intensity \in BOOLEAN
    /\ edges \in BOOLEAN
    /\ texture \in BOOLEAN
    /\ sigma_min \in SigmaValues
    /\ sigma_max \in SigmaValues
    /\ num_workers \in 1..MaxWorkers
    /\ has_dask \in BOOLEAN
    /\ pc = "call"
    /\ PipeIdle
    /\ SegIdle
    /\ FitUnused

NextFeatures ==
    \/ Call /\ UNCHANGED <<segVars, fitVars>>
    \/ Submit /\ UNCHANGED <<segVars, fitVars>>
    \/ \E t \in Tasks : Start(t) /\ UNCHANGED <<segVars, fitVars>>
    \/ \E t \in Tasks : Finish(t) /\ UNCHANGED <<segVars, fitVars>>
    \/ \E t \in Tasks : Fail(t) /\ UNCHANGED <<segVars, fitVars>>
    \/ PoolNext /\ UNCHANGED <<segVars, fitVars>>
    \/ DaskCompute /\ UNCHANGED <<segVars, fitVars>>
    \/ ChannelDone /\ UNCHANGED <<segVars, fitVars>>
    \/ Return /\ UNCHANGED <<segVars, fitVars>>

SpecFeatures == InitFeatures /\ [][NextFeatures]_vars

\* =================================================================== claims

\* ------------------------------------------------------------ C1
KindRank(f) ==
    IF f[3] = "intensity" THEN 0 ELSE IF f[3] = "edges" THEN 1 ELSE 1 + f[4]

\* a comes before b: channel ascending, then scale descending, then
\* intensity, edges, texture eigenvalues
Before(a, b) ==
    \/ a[1] < b[1]
    \/ a[1] = b[1] /\ ScaleLess(b[2], a[2])
    \/ a[1] = b[1] /\ ScaleEq(a[2], b[2]) /\ KindRank(a) < KindRank(b)

\* what one worker computing the tasks one after the other puts together
SerialFeatures ==
    LET sg == Sigmas(sigma_min, sigma_max).seq
        nd == Len(ChannelShape)
    IN  Flatten([c \in 1..NumChannels |->
            Flatten([i \in 1..Len(sg) |->
                Bundle(c - 1, sg[i], nd, intensity, edges, texture)])])

\* C1: whatever the number of workers and the order in which the tasks of a
\* channel finish, the feature list of a call that returns is in canonical
\* order (channel ascending, scale descending, intensity, edges, texture
\* eigenvalues) and is the list a single worker produces.
C1_CanonicalOrder ==
    pc = "returned" =>
        /\ \A i, j \in 1..Len(features) : i < j => Before(features[i], features[j])
        /\ features = SerialFeatures

C1_Witness ==
    /\ pc = "returned"
    /\ overtaken
    /\ num_workers > 1
    /\ NumChannels > 1
    /\ Len(sigmas) > 1
    /\ intensity /\ edges /\ texture

\* ------------------------------------------------------------ C5
\* the order of the sigma values: negative < 0 < 2^(e/Den)
SigmaLess(a, b) ==
    \/ a.sign < b.sign
    \/ a.sign = 1 /\ b.sign = 1 /\ a.e < b.e

InvalidBounds == sigma_min.sign <= 0 \/ SigmaLess(sigma_max, sigma_min)

ValidBounds == ~InvalidBounds

\* C5: a call with sigma_min <= 0 or sigma_max < sigma_min never returns a
\* feature stack, not even an empty one.
C5_InvalidBoundsRejected ==
    InvalidBounds => result.kind # "returned"

\* ------------------------------------------------------------ C6
ScalesKnown == pc \in {"map", "stack", "returned", "raised"}

\* a = b * 2^(rn/rd)
ScaleRatio(a, b, rn, rd) == (a[1] * b[2] - b[1] * a[2]) * rd = rn * a[2] * b[2]

Span == sigma_max.e - sigma_min.e

MeantSplit == multichannel /\ Ndim >= 2
MeantChannels == IF MeantSplit THEN image[Ndim] ELSE 1
MeantShape == IF MeantSplit THEN SubSeq(image, 1, Ndim - 1) ELSE image

MeantF ==
    ((IF intensity THEN 1 ELSE 0) + (IF edges THEN 1 ELSE 0)
        + (IF texture THEN Len(MeantShape) ELSE 0))
    * Len(sigmas) * MeantChannels

C8_FailFast ==
    failed =>
        /\ pc \in {"map", "raised"}
        /\ result.kind # "returned"
        /\ pc = "map" => (Len(out_sigmas) < Len(sigmas) /\ ENABLED NextFeatures)
        /\ pc = "raised" => result.error = "TaskFailure"

C8_Witness ==
    /\ pc = "raised"
    /\ failed
    /\ features # <<>>
    /\ \E t \in Tasks : futures[t].state = "FINISHED"
    /\ \E t \in Tasks : futures[t].state = "RUNNING"

\* ------------------------------------------------------------ C2
\* C2: a fit that is given an image and gets as far as training the
\* classifier trains it on the features of that image.
C2_FitUsesSuppliedImage ==
    (last.op = "fit" /\ last.image # None /\ last.called) =>
        last.used.of = last.image

\* ------------------------------------------------------------ C3
\* C3: the output of fit_segmenter has the shape of labels; every pixel with
\* a label > 0 keeps it, every pixel with label 0 holds the value the
\* classifier predicted for that pixel's feature vector, each unlabeled
\* pixel was handed to the classifier exactly once, and the labels array is
\* as it was before the call.
C3_FitSegmenterOutput ==
    (fs_ret.done /\ fs_ret.val.err = "none") =>
        LET lab == fs_args.labels
            r == fs_ret.val
        IN  /\ Len(r.output) = Len(lab)
            /\ Len(r.pred_X) = Len(fs_args.predicted)
            /\ Len(r.pred_X) = Cardinality({p \in 1..Len(lab) : lab[p] = 0})
            /\ \A p \in 1..Len(lab) :
                  /\ lab[p] > 0 => r.output[p] = lab[p]
                  /\ lab[p] = 0 =>
                        \E k \in 1..Len(r.pred_X) :
                            /\ r.pred_X[k] = <<fs_args.features.of, p>>
                            /\ r.output[p] = fs_args.predicted[k]
            /\ r.labels_after = lab

C3_Witness ==
    /\ fs_ret.done
    /\ fs_ret.val.err = "none"
    /\ \E p, q \in 1..Len(fs_args.labels) :
          /\ fs_args.labels[p] = 0
          /\ fs_args.labels[q] > 0
          /\ fs_ret.val.output[p] # fs_args.labels[q]

\* ------------------------------------------------------------ C4
\* C4: a predict on a classifier that was neither passed in fitted nor
\* fitted by a fit of this object ends with NotFittedError and no
\* segmentation; any other predict returns one prediction per pixel of the
\* image it was given.
C4_PredictNeedsFit ==
    last.op = "predict" =>
        IF ~(clf.prefitted \/ everFit)
        THEN last.outcome = "NotFittedError" /\ last.ret_shape = 0
        ELSE last.outcome = "ok" /\ last.ret_shape = ImageSize(last.image)

C4_Witness ==
    /\ last.op = "predict"
    /\ last.outcome = "ok"
    /\ ~clf.prefitted
    /\ everFit
    /\ last.ret_shape = MaxPixels

\* ------------------------------------------------------------ C9
\* C9: a fit without an image and without cached features fails before the
\* classifier is touched: no clf.fit, no segmented output, the classifier
\* as it was passed in.  With cached features a fit without an image hands
\* the cache to fit_segmenter, and succeeds whenever labels has its shape.
C9_FitWithoutImage ==
    (last.op = "fit" /\ last.image = None) =>
        IF last.cached = NoFeatures
        THEN /\ last.outcome = "AttributeError"
             /\ ~last.called
             /\ ~everFit
             /\ clf.fitted = clf.prefitted
             /\ segmented_image = <<>>
             /\ self_features = NoFeatures
        ELSE /\ last.used = last.cached
             /\ self_features = last.cached
             /\ last.outcome = (IF last.labels_shape = last.cached.size
                                THEN "ok" ELSE "IndexError")
             /\ last.outcome = "ok" => (last.called /\ clf.fitted /\ everFit)

C9_Witness ==
    /\ last.op = "fit"
    /\ last.image = None
    /\ last.cached = NoFeatures
    /\ last.outcome = "AttributeError"

\* ------------------------------------------------------------ C10
\* C10: predict computes the features of the image it is given and hands
\* those to the classifier, and leaves self.features and
\* self.segmented_image as they were; a fit without an image that follows
\* it trains on the features that were cached before the predict.
C10_PredictFrame ==
    [][ /\ last'.op = "predict" =>
              /\ last'.used = [of |-> last'.image, size |-> ImageSize(last'.image)]
              /\ self_features' = self_features
              /\ segmented_image' = segmented_image
        /\ (last.op = "predict" /\ last'.op = "fit" /\ last'.image = None
                /\ last.cached # NoFeatures) =>
              last'.used = last.cached
      ]_vars

C10_Witness ==
    /\ last.op = "predict"
    /\ last.outcome = "ok"
    /\ self_features # NoFeatures
    /\ self_features.of # last.image
    /\ segmented_image # <<>>

====
